---- MODULE Spec2Model ----
(***************************************************************************)
(* Resume assistant: the prompt gate, the backend modules and the          *)
(* run_workflow orchestrator, as a state machine.                          *)
(*                                                                         *)
(* Floats are scaled to integers: confidences are hundredths (0.7 is 70), *)
(* scores are kept on the 0..10 scale with -1 the failure score.           *)
(* A backend round trip is a nondeterministic choice among every parsed   *)
(* response of the requested schema and every failure of the call; the    *)
(* text of the prompt only matters through that response, so it is not    *)
(* carried in the state.                                                   *)
(***************************************************************************)
EXTENDS Integers, Sequences, FiniteSets, TLC

(***************************************************************************)
(* Values                                                                  *)
(***************************************************************************)
MaxJobs == 2

MinConfidence == 70
OllamaConfidence == 90
FailedScore == -1
DefaultThreshold == 7

Backends == {"openai", "ollama"}
Confidences == {0, 69, 70, 95}
Scores == {FailedScore, 3, 7, 8}
Explanations == {"strong python", "Comparison failed"}
GapTexts == {"", "- kubernetes"}
SuggestionTexts == {"add metrics"}
BackendErrors == {"connection error", "validation error"}
Thresholds == {0, DefaultThreshold}

None == [none |-> TRUE]

ComparisonExtract(v, c, r) == [is_valid |-> v, confidence |-> c, rationale |-> r]

WorkflowReqs(s, sc, p, pc_, e, ec, r) ==
    [score_resume |-> s, score_confidence |-> sc,
     predict_success |-> p, predict_confidence |-> pc_,
     suggest_edits |-> e, edit_confidence |-> ec, rationale |-> r]

JDScore(s, e) == [score |-> s, explanation |-> e]

ResumeSuggestions(t) == [suggestions |-> t]

JobInfo(s, e) == [score |-> s, explanation |-> e]

(***************************************************************************)
(* One round trip to the model: a parsed value of the schema, or an       *)
(* exception raised by the client library or by the parsing.              *)
(***************************************************************************)
Completion(values) ==
    {[ok |-> TRUE, parsed |-> v] : v \in values}
        \cup {[ok |-> FALSE, error |-> e] : e \in BackendErrors}

ComparisonExtractValues ==
    {ComparisonExtract(v, c, "r") : v \in BOOLEAN, c \in Confidences}

WorkflowReqsValues ==
    {WorkflowReqs(s, IF s THEN 95 ELSE 69, p, IF p THEN 95 ELSE 69, e,
                  IF e THEN 95 ELSE 69, "r") :
        s \in BOOLEAN, p \in BOOLEAN, e \in BOOLEAN}

JDScoreValues == {JDScore(s, e) : s \in Scores, e \in Explanations}

ResumeSuggestionsValues == {ResumeSuggestions(t) : t \in SuggestionTexts}

Return(v) == [raised |-> FALSE, value |-> v]

Raise(t, at) == [raised |-> TRUE, error |-> [type |-> t, at |-> at]]

(***************************************************************************)
(* scoring/oa_models.py                                                    *)
(***************************************************************************)
oa_check_request(c) ==
    IF c.ok THEN Return(c.parsed) ELSE Raise("BackendError", "check_request")

oa_extract_reqs(c) ==
    IF c.ok THEN Return(c.parsed) ELSE Raise("BackendError", "extract_reqs")

\* Variant: the except clause of score_resume is missing.
oa_score_resume_uncaught(c) ==
    IF c.ok THEN Return(c.parsed) ELSE Raise("BackendError", "score_resume")

oa_score_resume(c) ==
    IF c.ok THEN Return(c.parsed)
            ELSE Return(JDScore(FailedScore, "Comparison failed"))

\* Variant: the except clause of summarize_gaps is missing.
oa_summarize_gaps_uncaught(c) ==
    IF c.ok THEN Return(c.parsed) ELSE Raise("BackendError", "summarize_gaps")

oa_summarize_gaps(c) ==
    IF c.ok THEN Return(c.parsed)
            ELSE Return("Unable to analyze gaps: " \o c.error)

oa_suggest_edits(c) ==
    IF c.ok THEN Return(c.parsed)
            ELSE Return(JDScore(FailedScore, "Comparison failed"))

(***************************************************************************)
(* scoring/ollama_models.py                                                *)
(***************************************************************************)
\* Variant: check_request returns what the model answered.
ollama_check_request_asked(c) ==
    IF c.ok THEN Return(c.parsed)
            ELSE Return(ComparisonExtract(TRUE, OllamaConfidence, "PassThrough Value"))

ollama_check_request(c) ==
    Return(ComparisonExtract(TRUE, OllamaConfidence, "PassThrough Value"))

ollama_extract_reqs(c) ==
    IF c.ok THEN Return(c.parsed) ELSE Raise("BackendError", "extract_reqs")

ollama_score_resume(c) ==
    IF c.ok THEN Return(c.parsed)
            ELSE Return(JDScore(FailedScore, "Comparison failed"))

(***************************************************************************)
(* app/scoring/oa_models.py                                                *)
(***************************************************************************)
app_check_request(c) ==
    IF c.ok THEN Return(c.parsed)
            ELSE Return(ComparisonExtract(FALSE, 0, "Validity check failed: " \o c.error))

\* Variant: the except clause of extract_reqs is missing.
app_extract_reqs_uncaught(c) ==
    IF c.ok THEN Return(c.parsed) ELSE Raise("BackendError", "extract_reqs")

app_extract_reqs(c) ==
    IF c.ok THEN Return(c.parsed)
            ELSE Return(WorkflowReqs(FALSE, 0, FALSE, 0, FALSE, 0,
                                     "Failed to extract variables: " \o c.error))

app_score_resume(c) ==
    IF c.ok THEN Return(c.parsed)
            ELSE Return(JDScore(FailedScore, "Comparison failed"))

app_summarize_gaps(c) ==
    IF c.ok THEN Return(c.parsed)
            ELSE Return("Unable to analyze gaps: " \o c.error)

app_suggest_edits(c) ==
    IF c.ok THEN Return(c.parsed)
            ELSE Return(ResumeSuggestions("Comparison failed"))

(***************************************************************************)
(* The functions each backend module defines, and the call of one.        *)
(***************************************************************************)
Modules == {"scoring.oa_models", "scoring.ollama_models", "app.scoring.oa_models"}

Capabilities ==
    {"check_request", "extract_reqs", "score_resume", "summarize_gaps", "suggest_edits"}

ModuleDefines(m) ==
    IF m = "scoring.ollama_models"
    THEN {"check_request", "extract_reqs", "score_resume"}
    ELSE Capabilities

Schema(fn) ==
    CASE fn = "check_request" -> ComparisonExtractValues
      [] fn = "extract_reqs" -> WorkflowReqsValues
      [] fn = "score_resume" -> JDScoreValues
      [] fn = "summarize_gaps" -> GapTexts
      [] fn = "suggest_edits" -> ResumeSuggestionsValues

Apply(m, fn, c) ==
    CASE m = "scoring.oa_models" /\ fn = "check_request" -> oa_check_request(c)
      [] m = "scoring.oa_models" /\ fn = "extract_reqs" -> oa_extract_reqs(c)
      [] m = "scoring.oa_models" /\ fn = "score_resume" -> oa_score_resume(c)
      [] m = "scoring.oa_models" /\ fn = "summarize_gaps" -> oa_summarize_gaps(c)
      [] m = "scoring.oa_models" /\ fn = "suggest_edits" -> oa_suggest_edits(c)
      [] m = "scoring.ollama_models" /\ fn = "check_request" -> ollama_check_request(c)
      [] m = "scoring.ollama_models" /\ fn = "extract_reqs" -> ollama_extract_reqs(c)
      [] m = "scoring.ollama_models" /\ fn = "score_resume" -> ollama_score_resume(c)
      [] m = "app.scoring.oa_models" /\ fn = "check_request" -> app_check_request(c)
      [] m = "app.scoring.oa_models" /\ fn = "extract_reqs" -> app_extract_reqs(c)
      [] m = "app.scoring.oa_models" /\ fn = "score_resume" -> app_score_resume(c)
      [] m = "app.scoring.oa_models" /\ fn = "summarize_gaps" -> app_summarize_gaps(c)
      [] m = "app.scoring.oa_models" /\ fn = "suggest_edits" -> app_suggest_edits(c)

\* The import switch of scoring/prompt_extraction.py and scoring/job_posts.py.
BackendModule(b) ==
    IF b = "openai" THEN "scoring.oa_models" ELSE "scoring.ollama_models"

\* A call of check_request under Ollama makes no round trip to the model.
RoundTrip(m, fn) == ~(m = "scoring.ollama_models" /\ fn = "check_request")

(***************************************************************************)
(* Imports.  scoring/prompt_extraction.py takes check_request and          *)
(* extract_reqs from the backend module, scoring/job_posts.py takes        *)
(* score_resume and summarize_gaps, and main.py line 10 asks job_posts for *)
(* score_resume, summarize_gaps and suggest_edits.  scoring/job_posts.py   *)
(* does not itself import suggest_edits (app/scoring/job_posts.py does, on *)
(* its openai branch); the name is resolved here in the backend module, as *)
(* the other two are.  A `from m import name` of a name m does not define  *)
(* raises ImportError while the importing module loads.                    *)
(***************************************************************************)
ImportedNames(o) ==
    CASE o = "run_workflow" ->
           {"check_request", "extract_reqs", "score_resume", "summarize_gaps",
            "suggest_edits"}
      [] o = "check_and_extract" -> {"check_request", "extract_reqs"}
      [] o = "identify_resume_gaps" -> {"score_resume", "summarize_gaps"}
      [] o = "score_job_posts" -> {"score_resume", "summarize_gaps"}
      [] OTHER -> {}

Importable(b, fn) == fn \in ModuleDefines(BackendModule(b))

\* The operations that run the orchestrator: main.py over the scoring/ backend
\* modules, and the same orchestrator over app/scoring/oa_models.py.
Orchestrated == {"run_workflow", "app_run_workflow"}

EntryPc(o) ==
    IF o \in Orchestrated \cup {"check_and_extract"} THEN "check_request"
    ELSE IF o = "score_job_posts" THEN "score_loop"
    ELSE "call"

(***************************************************************************)
(* State                                                                   *)
(***************************************************************************)
VARIABLES
    backend,                \* config.AI_BACKEND
    op,                     \* the operation invoked
    target,                 \* for a direct call: the module and the function
    pc,                     \* position in the operation
    exc,                    \* the exception that ended it, if any
    callLog,                \* backend functions entered, in order
    failed,                 \* functions whose round trip to the model failed
    is_comparison_request,  \* check_and_extract: the ValidityCheck
    search_data,            \* check_and_extract: what extract_reqs returned
    request_values,         \* run_workflow: what check_and_extract returned
    score,                  \* run_workflow: the JDScore
    scoreResults,           \* values score_resume returned, in order
    gap_summary,            \* run_workflow: the gap summary
    summarize_arg,          \* the argument summarize_gaps was called with
    edits,                  \* run_workflow: what suggest_edits returned
    gaps_arg,               \* the gaps argument suggest_edits was called with
    cache,                  \* documents written by cache_data
    scores,                 \* identify_resume_gaps: the job records
    score_threshold,        \* identify_resume_gaps: the threshold
    args,                   \* the arguments of a directly called helper
    job_postings,           \* score_job_posts: the job records, updated in place
    batch_scores,           \* score_job_posts: the local list `scores`
    score_args,             \* score_job_posts: each scoring call and its result
    result                  \* what a directly called operation returned

vars ==
    <<backend, op, target, pc, exc, callLog, failed, is_comparison_request, search_data,
      request_values, score, scoreResults, gap_summary, summarize_arg, edits,
      gaps_arg, cache, scores, score_threshold, args, job_postings, batch_scores,
      score_args, result>>

inputs == <<backend, op, target, scores, score_threshold, args>>

batchVars == <<job_postings, batch_scores, score_args>>

gateVars == <<is_comparison_request, search_data, request_values>>

branchVars == <<score, scoreResults, gap_summary, summarize_arg, edits, gaps_arg, cache>>

Targets == {[module |-> m, fn |-> f] : m \in Modules, f \in Capabilities}

NoTarget == [module |-> "none", fn |-> "none"]

NoExc == [type |-> "none", at |-> "none"]

NoArgs == [none |-> TRUE]

JobInfoValues == {JobInfo(s, e) : s \in Scores, e \in Explanations}

JobLists == UNION {[1..n -> JobInfoValues] : n \in 0..MaxJobs}

Fresh ==
    /\ exc = NoExc
    /\ callLog = <<>>
    /\ failed = {}
    /\ is_comparison_request = None
    /\ search_data = None
    /\ request_values = None
    /\ score = None
    /\ scoreResults = <<>>
    /\ gap_summary = ""
    /\ summarize_arg = None
    /\ edits = None
    /\ gaps_arg = None
    /\ cache = <<>>
    /\ batch_scores = <<>>
    /\ score_args = <<>>
    /\ result = None

InitWorkflow ==
    /\ op \in {"run_workflow", "check_and_extract"}
    /\ backend \in Backends
    /\ target = NoTarget
    /\ scores = <<>>
    /\ score_threshold = DefaultThreshold
    /\ args = NoArgs
    /\ job_postings = <<>>
    /\ pc = "import"

InitGaps ==
    /\ op = "identify_resume_gaps"
    /\ backend \in Backends
    /\ target = NoTarget
    /\ scores \in JobLists
    /\ score_threshold \in Thresholds
    /\ args = NoArgs
    /\ job_postings = <<>>
    /\ pc = "import"

InitAppWorkflow ==
    /\ op = "app_run_workflow"
    /\ backend = "openai"
    /\ target = NoTarget
    /\ scores = <<>>
    /\ score_threshold = DefaultThreshold
    /\ args = NoArgs
    /\ job_postings = <<>>
    /\ pc = "import"

InitCall ==
    /\ op = "call"
    /\ target \in {t \in Targets : t.fn \in ModuleDefines(t.module)}
    /\ backend = (IF target.module = "scoring.ollama_models" THEN "ollama" ELSE "openai")
    /\ scores = <<>>
    /\ score_threshold = DefaultThreshold
    /\ args = NoArgs
    /\ job_postings = <<>>
    /\ pc = "call"

\* The backend module whose functions the running operation calls.
ActiveModule ==
    IF op = "app_run_workflow" THEN "app.scoring.oa_models" ELSE BackendModule(backend)

Called(fn) == \E i \in 1..Len(callLog) : callLog[i] = fn

Count(fn) == Cardinality({i \in 1..Len(callLog) : callLog[i] = fn})

\* The bookkeeping of one call of a backend function.
Enter(m, fn, c) ==
    /\ callLog' = Append(callLog, fn)
    /\ failed' = IF RoundTrip(m, fn) /\ ~c.ok THEN failed \cup {fn} ELSE failed

ImportModules ==
    /\ pc = "import"
    /\ IF \A fn \in ImportedNames(op) : Importable(backend, fn)
       THEN pc' = EntryPc(op) /\ UNCHANGED exc
       ELSE /\ pc' = "raised"
            /\ exc' = [type |-> "ImportError",
                       at |-> CHOOSE fn \in ImportedNames(op) : ~Importable(backend, fn)]
    /\ UNCHANGED <<inputs, batchVars, callLog, failed, gateVars, branchVars, result>>

(***************************************************************************)
(* scoring/prompt_extraction.py: check_and_extract                         *)
(***************************************************************************)
\* Variant: `and` in place of `or` in the gate condition.
GateRejects_conjunction(v) == ~v.is_valid /\ v.confidence < MinConfidence

\* Variant: `<=` in place of `<` in the gate condition.
GateRejects_inclusive(v) == ~v.is_valid \/ v.confidence <= MinConfidence

GateRejects(v) == ~v.is_valid \/ v.confidence < MinConfidence

CheckRequest ==
    /\ pc = "check_request"
    /\ \E c \in Completion(ComparisonExtractValues) :
         LET r == Apply(ActiveModule, "check_request", c) IN
           /\ Enter(ActiveModule, "check_request", c)
           /\ IF r.raised
              THEN /\ pc' = "raised"
                   /\ exc' = r.error
                   /\ UNCHANGED is_comparison_request
              ELSE /\ pc' = "gate"
                   /\ is_comparison_request' = r.value
                   /\ UNCHANGED exc
    /\ UNCHANGED <<inputs, batchVars, search_data, request_values, branchVars, result>>

Gate ==
    /\ pc = "gate"
    /\ pc' = IF GateRejects(is_comparison_request) THEN "rejected" ELSE "extract_reqs"
    /\ UNCHANGED <<inputs, batchVars, exc, callLog, failed, gateVars, branchVars, result>>

check_and_extract_return(data) == data

ExtractReqs ==
    /\ pc = "extract_reqs"
    /\ \E c \in Completion(WorkflowReqsValues) :
         LET r == Apply(ActiveModule, "extract_reqs", c) IN
           /\ Enter(ActiveModule, "extract_reqs", c)
           /\ IF r.raised
              THEN /\ pc' = "raised"
                   /\ exc' = r.error
                   /\ UNCHANGED <<search_data, request_values, result>>
              ELSE /\ search_data' = r.value
                   /\ UNCHANGED exc
                   /\ IF op \in Orchestrated
                      THEN /\ pc' = "score_branch"
                           /\ request_values' = check_and_extract_return(r.value)
                           /\ UNCHANGED result
                      ELSE /\ pc' = "returned"
                           /\ result' = check_and_extract_return(r.value)
                           /\ UNCHANGED request_values
    /\ UNCHANGED <<inputs, batchVars, is_comparison_request, branchVars>>

(***************************************************************************)
(* main.py: run_workflow, one action per step between backend calls.       *)
(* predict_success and display_success are names main.py neither imports  *)
(* nor defines.                                                            *)
(***************************************************************************)
MainDefines == {"cache_data", "display_output", "run_workflow", "extract_txt_file",
                "check_and_extract", "score_resume", "summarize_gaps", "suggest_edits"}

ScoreCall(c, next) ==
    LET r == Apply(ActiveModule, "score_resume", c) IN
      /\ Enter(ActiveModule, "score_resume", c)
      /\ score' = r.value
      /\ scoreResults' = Append(scoreResults, r.value)
      /\ pc' = next

SkipScore ==
    /\ pc = "score_branch"
    /\ ~request_values.score_resume
    /\ pc' = "predict_branch"
    /\ UNCHANGED <<inputs, batchVars, exc, callLog, failed, gateVars, branchVars, result>>

ScoreResume ==
    /\ pc = "score_branch"
    /\ request_values.score_resume
    /\ \E c \in Completion(JDScoreValues) : ScoreCall(c, "summarize_gaps")
    /\ UNCHANGED <<inputs, batchVars, exc, gateVars, gap_summary, summarize_arg, edits, gaps_arg,
                   cache, result>>

\* main.py line 85 passes the JDScore itself, whatever its score.
SummarizeArgument(s) == s

SummarizeGaps ==
    /\ pc = "summarize_gaps"
    /\ \E c \in Completion(GapTexts) :
         LET r == Apply(ActiveModule, "summarize_gaps", c) IN
           /\ Enter(ActiveModule, "summarize_gaps", c)
           /\ summarize_arg' = [arg |-> SummarizeArgument(score), type |-> "JDScore"]
           /\ gap_summary' = r.value
           /\ pc' = "display_cache"
    /\ UNCHANGED <<inputs, batchVars, exc, gateVars, score, scoreResults, edits, gaps_arg,
                   cache, result>>

DisplayAndCache ==
    /\ pc = "display_cache"
    /\ cache' = Append(cache, [job |-> score, areas_of_improvement |-> gap_summary])
    /\ pc' = "predict_branch"
    /\ UNCHANGED <<inputs, batchVars, exc, callLog, failed, gateVars, score, scoreResults,
                   gap_summary,
                   summarize_arg, edits, gaps_arg, result>>

SkipPredict ==
    /\ pc = "predict_branch"
    /\ ~request_values.predict_success
    /\ pc' = "edits_branch"
    /\ UNCHANGED <<inputs, batchVars, exc, callLog, failed, gateVars, branchVars, result>>

\* Variant: the prediction branch scores again whatever the score branch did.
NeedsScore_always(reqs) == TRUE

\* main.py line 89
NeedsScore(reqs) == ~reqs.score_resume

PredictScore ==
    /\ pc = "predict_branch"
    /\ request_values.predict_success
    /\ NeedsScore(request_values)
    /\ \E c \in Completion(JDScoreValues) : ScoreCall(c, "predict_success")
    /\ UNCHANGED <<inputs, batchVars, exc, gateVars, gap_summary, summarize_arg, edits, gaps_arg,
                   cache, result>>

PredictReuse ==
    /\ pc = "predict_branch"
    /\ request_values.predict_success
    /\ ~NeedsScore(request_values)
    /\ pc' = "predict_success"
    /\ UNCHANGED <<inputs, batchVars, exc, callLog, failed, gateVars, branchVars, result>>

\* main.py line 91: the global predict_success is looked up first.
PredictSuccess ==
    /\ pc = "predict_success"
    /\ "predict_success" \notin MainDefines
    /\ pc' = "raised"
    /\ exc' = [type |-> "NameError", at |-> "predict_success"]
    /\ UNCHANGED <<inputs, batchVars, callLog, failed, gateVars, branchVars, result>>

\* Variant: the edits branch runs whether or not edits were requested.
WantsEdits_always(reqs) == TRUE

\* main.py line 93
WantsEdits(reqs) == reqs.suggest_edits

\* Variant: the edits branch passes no gap summary.
EditsGapsArgument_empty(summary) == ""

\* main.py line 94: the third argument of suggest_edits is the local gap_summary,
\* a str: "" from line 82 unless the score branch assigned it.
EditsGapsArgument(summary) == summary

\* oa_models.py line 240: `if gaps:` appends the gaps block for a non-empty str.
GapsBlockAppended(gaps) == gaps # ""

SkipEdits ==
    /\ pc = "edits_branch"
    /\ ~WantsEdits(request_values)
    /\ pc' = "done"
    /\ UNCHANGED <<inputs, batchVars, exc, callLog, failed, gateVars, branchVars, result>>

SuggestEdits ==
    /\ pc = "edits_branch"
    /\ WantsEdits(request_values)
    /\ \E c \in Completion(ResumeSuggestionsValues) :
         LET r == Apply(ActiveModule, "suggest_edits", c) IN
           /\ Enter(ActiveModule, "suggest_edits", c)
           /\ gaps_arg' = [arg |-> EditsGapsArgument(gap_summary),
                           type |-> "str",
                           block |-> GapsBlockAppended(EditsGapsArgument(gap_summary))]
           /\ edits' = r.value
           /\ pc' = "print_edits"
    /\ UNCHANGED <<inputs, batchVars, exc, gateVars, score, scoreResults, gap_summary,
                   summarize_arg,
                   cache, result>>

HasAttr(obj, name) == name \in DOMAIN obj

\* main.py line 95: pprint(edits.suggestions)
PrintEdits ==
    /\ pc = "print_edits"
    /\ IF HasAttr(edits, "suggestions")
       THEN pc' = "done" /\ UNCHANGED exc
       ELSE /\ pc' = "raised"
            /\ exc' = [type |-> "AttributeError", at |-> "edits.suggestions"]
    /\ UNCHANGED <<inputs, batchVars, callLog, failed, gateVars, branchVars, result>>

(***************************************************************************)
(* scoring/job_posts.py: identify_resume_gaps                              *)
(***************************************************************************)
\* Variant: `>=` in place of `>` in the filter.
RECURSIVE AboveThreshold_inclusive(_, _)
AboveThreshold_inclusive(jobs, threshold) ==
    IF jobs = <<>> THEN <<>>
    ELSE LET rest == AboveThreshold_inclusive(Tail(jobs), threshold) IN
           IF Head(jobs).score >= threshold
           THEN <<Head(jobs).explanation>> \o rest
           ELSE rest

\* Variant: the explanations are collected last record first.
RECURSIVE AboveThreshold_reversed(_, _)
AboveThreshold_reversed(jobs, threshold) ==
    IF jobs = <<>> THEN <<>>
    ELSE LET rest == AboveThreshold_reversed(Tail(jobs), threshold) IN
           IF Head(jobs).score > threshold
           THEN rest \o <<Head(jobs).explanation>>
           ELSE rest

RECURSIVE AboveThreshold(_, _)
AboveThreshold(jobs, threshold) ==
    IF jobs = <<>> THEN <<>>
    ELSE LET rest == AboveThreshold(Tail(jobs), threshold) IN
           IF Head(jobs).score > threshold
           THEN <<Head(jobs).explanation>> \o rest
           ELSE rest

NoJobsMessage(threshold) ==
    "Unable to conduct gap analysis, no jobs scored above " \o ToString(threshold)

IdentifyResumeGaps ==
    /\ op = "identify_resume_gaps" /\ pc = "call"
    /\ LET explanations == AboveThreshold(scores, score_threshold) IN
         IF Len(explanations) = 0
         THEN /\ result' = NoJobsMessage(score_threshold)
              /\ UNCHANGED <<callLog, failed, summarize_arg>>
         ELSE \E c \in Completion(GapTexts) :
                LET r == Apply(ActiveModule, "summarize_gaps", c) IN
                  /\ Enter(ActiveModule, "summarize_gaps", c)
                  /\ summarize_arg' = [arg |-> explanations, type |-> "list"]
                  /\ result' = r.value
    /\ pc' = "returned"
    /\ UNCHANGED <<inputs, batchVars, exc, gateVars, score, scoreResults, gap_summary, edits,
                   gaps_arg,
                   cache>>

(***************************************************************************)
(* A backend function called on its own.                                   *)
(***************************************************************************)
CallBackendFunction ==
    /\ op = "call" /\ pc = "call"
    /\ \E c \in Completion(Schema(target.fn)) :
         LET r == Apply(target.module, target.fn, c) IN
           /\ Enter(target.module, target.fn, c)
           /\ IF r.raised
              THEN pc' = "raised" /\ exc' = r.error /\ UNCHANGED result
              ELSE pc' = "returned" /\ result' = r.value /\ UNCHANGED exc
    /\ UNCHANGED <<inputs, batchVars, gateVars, branchVars>>

(***************************************************************************)
(* scoring/success_prediction.py and app/scoring/success_prediction.py.    *)
(* Percentages are in thousandths of a point (94.126 is 94126), decay      *)
(* factors in tenths (0.8 is 8), interview chances in hundredths.          *)
(***************************************************************************)
Max(a, b) == IF a >= b THEN a ELSE b

Min(a, b) == IF a <= b THEN a ELSE b

Points(p) == p * 1000

TailoringLevels == {"Exceptional", "Very Well", "Well", "Moderate", "Generic"}

LevelValues == TailoringLevels \cup {"Outstanding"}

RawValues ==
    {Points(0 - 1), 0, 1, 4999, Points(5), 33330, Points(90), 90126, 94999, 95001,
     Points(98), Points(100), Points(101)}

DayValues == {0 - 1, 0, 10, 14, 15, 28, 29, 56, 57, 84, 85, 200}

tailoring_boost_points(level) ==
    CASE level = "Exceptional" -> 10
      [] level = "Very Well" -> 7
      [] level = "Well" -> 4
      [] level = "Moderate" -> 1
      [] level = "Generic" -> 0 - 5

\* Variant: the result is not capped at 100.
app_overall_fit_uncapped(raw_fit_percentage, tailoring_level) ==
    Return(Max(0, raw_fit_percentage + Points(tailoring_boost_points(tailoring_level))))

\* app/scoring/success_prediction.py: an unknown level adds nothing.
app_calculate_overall_fit_and_tailoring_score(raw_fit_percentage, tailoring_level) ==
    LET boost == IF tailoring_level \in TailoringLevels
                 THEN tailoring_boost_points(tailoring_level)
                 ELSE 0
        initial_score == raw_fit_percentage + Points(boost)
    IN  Return(Max(0, Min(initial_score, Points(100))))

\* scoring/success_prediction.py: out-of-range input is a ValueError.
calculate_overall_fit_and_tailoring_score(raw_fit_percentage, tailoring_level) ==
    IF ~(0 <= raw_fit_percentage /\ raw_fit_percentage <= Points(100))
    THEN Raise("ValueError", "raw_fit_percentage")
    ELSE IF tailoring_level \notin TailoringLevels
    THEN Raise("ValueError", "tailoring_level")
    ELSE LET initial_score ==
                 raw_fit_percentage + Points(tailoring_boost_points(tailoring_level))
         IN  Return(Max(0, Min(initial_score, Points(100))))

\* app/scoring/success_prediction.py
calculate_time_decay(days_since_posted) ==
    IF days_since_posted <= 14 THEN 10
    ELSE IF days_since_posted <= 28 THEN 8
    ELSE IF days_since_posted <= 56 THEN 5
    ELSE IF days_since_posted <= 84 THEN 2
    ELSE 1

\* scoring/success_prediction.py: `return 1` whatever the argument.
calculate_time_decay_factor(date_posted) == 10

\* round(x, 2) of x = v / 10000, in hundredths.  When x lies exactly half way
\* between two hundredths the double that stands for it lies on either side,
\* so either neighbour can come out.
Round2(v) ==
    LET low == v \div 100
        rest == v % 100
    IN  IF rest < 50 THEN {low}
        ELSE IF rest > 50 THEN {low + 1}
        ELSE {low, low + 1}

\* Variant: the time decay is left out of the product.
calculate_interview_chance_nodecay(raw_fit_percentage, tailoring_level, days_since_posted) ==
    Round2(app_calculate_overall_fit_and_tailoring_score(
               raw_fit_percentage, tailoring_level).value * 10)

\* app/scoring/success_prediction.py: the values round(interview_chance, 2) can take.
calculate_interview_chance(raw_fit_percentage, tailoring_level, days_since_posted) ==
    LET overall_score == app_calculate_overall_fit_and_tailoring_score(
                             raw_fit_percentage, tailoring_level).value
        time_decay == calculate_time_decay(days_since_posted)
    IN  Round2(overall_score * time_decay)

HelperModules == {"scoring.success_prediction", "app.scoring.success_prediction"}

InitHelper ==
    /\ op \in {"overall_fit", "time_decay", "interview_chance"}
    /\ backend = "openai"
    /\ target = NoTarget
    /\ scores = <<>>
    /\ score_threshold = DefaultThreshold
    /\ job_postings = <<>>
    /\ args \in [module : IF op = "interview_chance"
                          THEN {"app.scoring.success_prediction"}
                          ELSE HelperModules,
                 raw : IF op = "time_decay" THEN {0} ELSE RawValues,
                 level : IF op = "time_decay" THEN {"Well"} ELSE LevelValues,
                 days : IF op = "overall_fit" THEN {0} ELSE DayValues]
    /\ pc = "call"

Finish(r) ==
    IF r.raised
    THEN pc' = "raised" /\ exc' = r.error /\ UNCHANGED result
    ELSE pc' = "returned" /\ result' = r.value /\ UNCHANGED exc

CalcOverallFit ==
    /\ op = "overall_fit" /\ pc = "call"
    /\ Finish(IF args.module = "app.scoring.success_prediction"
              THEN app_calculate_overall_fit_and_tailoring_score(args.raw, args.level)
              ELSE calculate_overall_fit_and_tailoring_score(args.raw, args.level))
    /\ UNCHANGED <<inputs, batchVars, callLog, failed, gateVars, branchVars>>

CalcTimeDecay ==
    /\ op = "time_decay" /\ pc = "call"
    /\ Finish(Return(IF args.module = "app.scoring.success_prediction"
                     THEN calculate_time_decay(args.days)
                     ELSE calculate_time_decay_factor(args.days)))
    /\ UNCHANGED <<inputs, batchVars, callLog, failed, gateVars, branchVars>>

CalcInterviewChance ==
    /\ op = "interview_chance" /\ pc = "call"
    /\ \E r \in calculate_interview_chance(args.raw, args.level, args.days) :
         Finish(Return(r))
    /\ UNCHANGED <<inputs, batchVars, callLog, failed, gateVars, branchVars>>

(***************************************************************************)
(* scoring/oa_models.py: the user prompt of summarize_gaps.  A text is the *)
(* sequence of its characters; the fixed first and last lines of the       *)
(* prompt are one element each.                                            *)
(***************************************************************************)
RationaleTexts == {<<"a", "b">>, <<"c">>}

PromptInputs ==
    {[kind |-> "str", text |-> t] : t \in RationaleTexts}
        \cup {[kind |-> "list", items |-> <<t>>] : t \in RationaleTexts}
        \cup {[kind |-> "list", items |-> <<t, u>>] : t \in RationaleTexts, u \in RationaleTexts}
        \cup {[kind |-> "JDScore", score |-> "7", explanation |-> t] : t \in RationaleTexts}

\* repr() of a str without quotes in it
Repr(text) == <<"'">> \o text \o <<"'">>

RECURSIVE ReprItems(_)
ReprItems(items) ==
    IF items = <<>> THEN <<>>
    ELSE IF Len(items) = 1 THEN Repr(Head(items))
    ELSE Repr(Head(items)) \o <<",", " ">> \o ReprItems(Tail(items))

\* str() as the f-string applies it: a str is itself, a list is its repr, a
\* pydantic model is its fields.
Str(x) ==
    CASE x.kind = "str" -> x.text
      [] x.kind = "list" -> <<"[">> \o ReprItems(x.items) \o <<"]">>
      [] x.kind = "JDScore" ->
            <<"s", "c", "o", "r", "e", "=", x.score, " ">>
                \o <<"e", "x", "p", "l", "a", "n", "a", "t", "i", "o", "n", "=">>
                \o Repr(x.explanation)

Separator == <<"\n", "-", "-", "\n">>

\* sep.join(parts), parts a sequence of texts
RECURSIVE Join(_, _)
Join(sep, parts) ==
    IF parts = <<>> THEN <<>>
    ELSE IF Len(parts) = 1 THEN Head(parts)
    ELSE Head(parts) \o sep \o Join(sep, Tail(parts))

\* Iterating a str yields its characters, each a str of length one.
Iterate(text) == [i \in 1 .. Len(text) |-> <<text[i]>>]

gap_user_prompt(explanation) ==
    LET rationale == <<"R", "a", "t", "i", "o", "n", "a", "l", "e", ":", " ">> \o Str(explanation)
    IN  <<"Analyze the following rationale to identify missing skills or experiences:\n">>
            \o Join(Separator, Iterate(rationale))
            \o Separator \o <<"\n">>
            \o <<"List the identified gaps:">>

InitPrompt ==
    /\ op = "gap_prompt"
    /\ backend = "openai"
    /\ target = NoTarget
    /\ scores = <<>>
    /\ score_threshold = DefaultThreshold
    /\ job_postings = <<>>
    /\ args \in [explanation : PromptInputs]
    /\ pc = "call"

BuildGapPrompt ==
    /\ op = "gap_prompt" /\ pc = "call"
    /\ Finish(Return(gap_user_prompt(args.explanation)))
    /\ UNCHANGED <<inputs, batchVars, callLog, failed, gateVars, branchVars>>

(***************************************************************************)
(* scoring/job_posts.py: score_job_posts.  The records of job_postings are *)
(* updated in place; the list returned holds the same records.             *)
(***************************************************************************)
JobDescriptions == {"jd a", "jd b"}

\* A JobInfo as the caller builds it: score and explanation at their defaults.
NewJobInfo(d, r) == [description |-> d, resume |-> r, score |-> 0, explanation |-> "None"]

JobPostings ==
    UNION {[1 .. n -> {NewJobInfo(d, "cv") : d \in JobDescriptions}] : n \in 0 .. MaxJobs}

InitBatch ==
    /\ op = "score_job_posts"
    /\ backend \in Backends
    /\ target = NoTarget
    /\ scores = <<>>
    /\ score_threshold = DefaultThreshold
    /\ args \in [resume : {"cv"}, job_postings : JobPostings]
    /\ job_postings = args.job_postings
    /\ pc = "import"

\* Variant: only the score is written back.
WriteBack_score_only(job, job_score) == [job EXCEPT !.score = job_score.score]

\* job_posts.py lines 43-44
WriteBack(job, job_score) ==
    [job EXCEPT !.score = job_score.score, !.explanation = job_score.explanation]

\* One iteration of the loop: i is the index of the record, batch_scores the
\* indices of the records appended so far.
ScoreJobPost ==
    /\ op = "score_job_posts" /\ pc = "score_loop"
    /\ Len(batch_scores) < Len(job_postings)
    /\ LET i == Len(batch_scores) + 1 IN
         \E c \in Completion(JDScoreValues) :
           /\ ScoreCall(c, "score_loop")
           /\ score_args' = Append(score_args,
                  [resume |-> args.resume, job_description |-> job_postings[i].description,
                   completion |-> c])
           /\ job_postings' = [job_postings EXCEPT
                                 ![i] = WriteBack(@, Apply(ActiveModule, "score_resume", c).value)]
           /\ batch_scores' = Append(batch_scores, i)
    /\ UNCHANGED <<inputs, exc, gateVars, gap_summary, summarize_arg, edits, gaps_arg, cache,
                   result>>

ReturnJobPosts ==
    /\ op = "score_job_posts" /\ pc = "score_loop"
    /\ Len(batch_scores) = Len(job_postings)
    /\ result' = [k \in 1 .. Len(batch_scores) |-> job_postings[batch_scores[k]]]
    /\ pc' = "returned"
    /\ UNCHANGED <<inputs, batchVars, exc, callLog, failed, gateVars, branchVars>>

Init ==
    Fresh /\ (\/ InitWorkflow \/ InitAppWorkflow \/ InitGaps \/ InitCall
              \/ InitHelper \/ InitPrompt \/ InitBatch)

Next ==
    \/ ImportModules
    \/ CheckRequest
    \/ Gate
    \/ ExtractReqs
    \/ SkipScore
    \/ ScoreResume
    \/ SummarizeGaps
    \/ DisplayAndCache
    \/ SkipPredict
    \/ PredictScore
    \/ PredictReuse
    \/ PredictSuccess
    \/ SkipEdits
    \/ SuggestEdits
    \/ PrintEdits
    \/ IdentifyResumeGaps
    \/ CallBackendFunction
    \/ CalcOverallFit
    \/ CalcTimeDecay
    \/ CalcInterviewChance
    \/ BuildGapPrompt
    \/ ScoreJobPost
    \/ ReturnJobPosts

Spec == Init /\ [][Next]_vars

(***************************************************************************)
(* Properties                                                              *)
(***************************************************************************)
Validated == is_comparison_request # None

GateDecided == Validated /\ pc # "gate"

Sentinel == [score |-> -1, explanation |-> "Comparison failed"]

\* C1: Gate rejection.  Once the gate has decided on a ValidityCheck with
\* is_valid false, or with confidence below 0.7, the operation is in the
\* rejected outcome and check_request is the only backend function that was
\* ever called: no extract_reqs, no scoring, no gap summary, no edit suggestion.
C1_GateRejection ==
    (/\ op \in {"run_workflow", "check_and_extract"}
     /\ GateDecided
     /\ (~is_comparison_request.is_valid \/ is_comparison_request.confidence < 70))
        => (pc = "rejected" /\ callLog = <<"check_request">> /\ cache = <<>>)

\* C1 witness: run_workflow rejected a valid-looking prompt at confidence 0.69.
C1_Witness ==
    /\ op = "run_workflow"
    /\ pc = "rejected"
    /\ is_comparison_request.is_valid
    /\ is_comparison_request.confidence = 69

\* C2: Gate acceptance.  Once the gate has decided on a ValidityCheck with
\* is_valid true and confidence at least 0.7, the operation is not rejected,
\* check_request was called exactly once, extract_reqs is called exactly once
\* right after it, and what check_and_extract hands back is the value
\* extract_reqs returned.
C2_GateAcceptance ==
    (/\ op \in {"run_workflow", "check_and_extract"}
     /\ GateDecided
     /\ is_comparison_request.is_valid
     /\ is_comparison_request.confidence >= 70)
        => /\ pc # "rejected"
           /\ Count("check_request") = 1
           /\ callLog[1] = "check_request"
           /\ IF pc = "extract_reqs"
              THEN callLog = <<"check_request">>
              ELSE /\ Count("extract_reqs") = 1
                   /\ callLog[2] = "extract_reqs"
                   /\ (exc.at # "extract_reqs"
                         => /\ search_data \in WorkflowReqsValues
                            /\ IF op = "run_workflow"
                               THEN request_values = search_data
                               ELSE result = search_data)

\* C2 witness: run_workflow holds the extracted intent of a prompt validated at
\* exactly 0.7.
C2_Witness ==
    /\ op = "run_workflow"
    /\ pc = "score_branch"
    /\ is_comparison_request.confidence = 70
    /\ request_values.suggest_edits
    /\ callLog = <<"check_request", "extract_reqs">>

C4_WorkflowCompletes ==
    (op = "run_workflow" /\ backend = "openai" /\ request_values # None)
        => pc # "raised"

\* C5: FitScore reuse.  run_workflow calls score_resume at most once, and when
\* it reaches the prediction call exactly one FitScore has been computed and
\* the local score, the argument of the prediction, is that FitScore.
C5_FitScoreReuse ==
    op = "run_workflow"
        => /\ Count("score_resume") <= 1
           /\ Len(scoreResults) <= 1
           /\ (pc = "predict_success"
                 => /\ Count("score_resume") = 1
                    /\ scoreResults = <<score>>)

\* C5 witness: both the score and the prediction were requested and the
\* prediction call is reached with the score branch's FitScore.
C5_Witness ==
    /\ op = "run_workflow"
    /\ pc = "predict_success"
    /\ request_values.score_resume
    /\ request_values.predict_success
    /\ cache # <<>>

\* C6: Edit Suggester failure type.  When the round trip inside suggest_edits
\* failed, the value suggest_edits returned has a suggestions field.
C6_EditsFailureType ==
    /\ (op = "run_workflow" /\ "suggest_edits" \in failed)
         => HasAttr(edits, "suggestions")
    /\ (op = "call" /\ target.fn = "suggest_edits" /\ "suggest_edits" \in failed)
         => HasAttr(result, "suggestions")

\* C7: Backend interchangeability.  Under either value of AI_BACKEND every
\* capability the orchestrator imports is provided by the selected backend:
\* once the modules are loaded no import has failed and run_workflow can start.
C7_BackendsInterchangeable ==
    (op = "run_workflow" /\ pc # "import")
        => /\ exc.type # "ImportError"
           /\ \A fn \in ImportedNames(op) : Importable(backend, fn)

\* C8: Sentinel short-circuits gap analysis.  When score_resume failed and
\* returned the sentinel, run_workflow does not call summarize_gaps.
C8_SentinelSkipsGaps ==
    (op = "run_workflow" /\ "score_resume" \in failed /\ score = Sentinel)
        => /\ ~Called("summarize_gaps")
           /\ summarize_arg = None

\* C9: Intent Extractor never raises.  No failure of the backend during
\* check_request or extract_reqs leaves check_and_extract as an exception.
C9_IntentExtractorNeverRaises ==
    op \in {"run_workflow", "check_and_extract"}
        => ~(pc = "raised" /\ exc.at \in {"check_request", "extract_reqs"})

\* C10: Empty gap input makes no backend call.  When no record scores above the
\* threshold, identify_resume_gaps returns the "no jobs scored above" message
\* and summarize_gaps is not called.
C10_EmptyGapInput ==
    (/\ op = "identify_resume_gaps"
     /\ pc = "returned"
     /\ \A i \in 1..Len(scores) : ~(scores[i].score > score_threshold))
        => /\ result = "Unable to conduct gap analysis, no jobs scored above "
                          \o ToString(score_threshold)
           /\ callLog = <<>>
           /\ summarize_arg = None

\* C10 witness: a non-empty list none of whose records passes, one of them
\* scoring exactly the threshold.
C10_Witness ==
    /\ op = "identify_resume_gaps"
    /\ pc = "returned"
    /\ Len(scores) = 2
    /\ scores[1].score = score_threshold
    /\ scores[2].score = -1
    /\ callLog = <<>>

\* C11 (as claimed): when the score branch did not run, suggest_edits is
\* called with None as its gaps argument.
C11_GapsArgumentIsNone ==
    (op = "run_workflow" /\ gaps_arg # None /\ ~Called("summarize_gaps"))
        => gaps_arg.type = "NoneType"

\* C11 (amended): when run_workflow calls suggest_edits, the gaps argument is
\* the gap summary the score branch of the same invocation produced if that
\* branch ran, and the empty string if it did not; the gaps block is appended
\* to the prompt only for a non-empty argument, so never when the score branch
\* did not run.
C11_EditSuggesterInput ==
    (op = "run_workflow" /\ gaps_arg # None)
        => /\ request_values.suggest_edits
           /\ gaps_arg.type = "str"
           /\ gaps_arg.arg = gap_summary
           /\ gaps_arg.block = (gaps_arg.arg # "")
           /\ IF Called("summarize_gaps")
              THEN /\ request_values.score_resume
                   /\ cache # <<>>
                   /\ gaps_arg.arg = cache[1].areas_of_improvement
              ELSE /\ ~request_values.score_resume
                   /\ gaps_arg.arg = ""
                   /\ ~gaps_arg.block

\* C11 witness: edits requested after a score branch that produced a non-empty
\* gap summary, which is the argument passed and is appended to the prompt.
C11_Witness ==
    /\ op = "run_workflow"
    /\ pc = "print_edits"
    /\ Called("summarize_gaps")
    /\ gaps_arg.arg = "- kubernetes"
    /\ gaps_arg.block

\* C12: Unrequested steps are skipped.  run_workflow calls score_resume only if
\* the score or the prediction was requested, calls summarize_gaps and writes
\* the cache only if the score was requested, calls suggest_edits only if edits
\* were requested; with all three flags false it goes straight to DONE with no
\* backend call after extract_reqs and no cache file.
C12_UnrequestedSkipped ==
    (op = "run_workflow" /\ request_values # None)
        => /\ Called("score_resume")
                => (request_values.score_resume \/ request_values.predict_success)
           /\ (Called("summarize_gaps") \/ cache # <<>>) => request_values.score_resume
           /\ (Called("suggest_edits") \/ gaps_arg # None \/ edits # None)
                => request_values.suggest_edits
           /\ (/\ ~request_values.score_resume
               /\ ~request_values.predict_success
               /\ ~request_values.suggest_edits)
                => /\ pc \in {"score_branch", "predict_branch", "edits_branch", "done"}
                   /\ callLog = <<"check_request", "extract_reqs">>
                   /\ cache = <<>>

\* C12 witness: an invocation with all three flags false has reached DONE.
C12_Witness ==
    /\ op = "run_workflow"
    /\ pc = "done"
    /\ ~request_values.score_resume
    /\ ~request_values.predict_success
    /\ ~request_values.suggest_edits

GapFailureTexts == {"Unable to analyze gaps: " \o e : e \in BackendErrors}

InDomain == 0 <= args.raw /\ args.raw <= Points(100) /\ args.level \in TailoringLevels

StatedBoost ==
    [l \in TailoringLevels |->
        IF l = "Exceptional" THEN Points(10)
        ELSE IF l = "Very Well" THEN Points(7)
        ELSE IF l = "Well" THEN Points(4)
        ELSE IF l = "Moderate" THEN Points(1)
        ELSE 0 - Points(5)]

StatedOverall(raw, level) ==
    LET sum == raw + StatedBoost[level]
        capped == IF sum > Points(100) THEN Points(100) ELSE sum
    IN  IF capped < 0 THEN 0 ELSE capped

\* C14: Composite score is clamped and monotone.  For a raw fit in [0, 100] and
\* one of the five known tailoring levels, both variants of
\* calculate_overall_fit_and_tailoring_score return max(0, min(raw + boost, 100)),
\* a value in [0, 100] that no smaller raw fit with the same level exceeds.
C14_ClampedAndMonotone ==
    (op = "overall_fit" /\ pc # "call" /\ InDomain)
        => /\ pc = "returned"
           /\ result = StatedOverall(args.raw, args.level)
           /\ 0 <= result /\ result <= Points(100)
           /\ \A lower \in RawValues :
                (0 <= lower /\ lower <= args.raw)
                    => StatedOverall(lower, args.level) <= result

\* C14 witness: raw 98 with "Exceptional" returned 100 from the app variant.
C14_Witness ==
    /\ op = "overall_fit"
    /\ pc = "returned"
    /\ args.module = "app.scoring.success_prediction"
    /\ args.raw = Points(98)
    /\ args.level = "Exceptional"
    /\ result = Points(100)

StatedDecay(days) ==
    CASE days <= 14 -> 10
      [] 14 < days /\ days <= 28 -> 8
      [] 28 < days /\ days <= 56 -> 5
      [] 56 < days /\ days <= 84 -> 2
      [] OTHER -> 1

\* C15: Time decay is the stated step function.  Every variant of the helper
\* returns 1.0 up to 14 days, 0.8 up to 28, 0.5 up to 56, 0.2 up to 84 and 0.1
\* beyond.
C15_StepFunction ==
    (op = "time_decay" /\ pc = "returned") => result = StatedDecay(args.days)

Exact(raw, level, days) == StatedOverall(raw, level) * StatedDecay(days)

\* The hundredths whose distance from the exact product is at most 0.005.
Nearest(v) == {h \in (v \div 100) .. (v \div 100) + 1 : h * 100 - v \in (0 - 50) .. 50}

\* C16 as stated: the interview chance is the rounded product, lies in
\* [0, 100] and is never larger than the overall score.
C16_NeverAboveOverall ==
    (op = "interview_chance" /\ pc = "returned" /\ InDomain)
        => /\ result \in Nearest(Exact(args.raw, args.level, args.days))
           /\ 0 <= result /\ result <= 10000
           /\ result * 10 <= StatedOverall(args.raw, args.level)

\* C16: Interview chance composes the two formulas.  For a raw fit in
\* [0, 100], a known level and any age, calculate_interview_chance is the
\* product of the overall score and the time decay rounded to 2 decimals, lies
\* in [0, 100], and exceeds the overall score by at most the rounding (0.005);
\* it does not exceed it when the overall score has at most 2 decimals.
C16_InterviewChance ==
    (op = "interview_chance" /\ pc # "call" /\ InDomain)
        => /\ pc = "returned"
           /\ result \in Nearest(Exact(args.raw, args.level, args.days))
           /\ 0 <= result /\ result <= 10000
           /\ result * 10 <= StatedOverall(args.raw, args.level) + 5
           /\ StatedOverall(args.raw, args.level) % 10 = 0
                => result * 10 <= StatedOverall(args.raw, args.level)

\* C16 witness: raw 90.126, "Well", 10 days returned 94.13, above 94.126.
C16_Witness ==
    /\ op = "interview_chance"
    /\ pc = "returned"
    /\ args.raw = 90126
    /\ args.level = "Well"
    /\ args.days = 10
    /\ result = 9413

Rationales(x) ==
    CASE x.kind = "str" -> {x.text}
      [] x.kind = "list" -> {x.items[i] : i \in DOMAIN x.items}
      [] x.kind = "JDScore" -> {x.explanation}

Contains(text, part) ==
    \E i \in 1 .. (Len(text) - Len(part) + 1) : SubSeq(text, i, i + Len(part) - 1) = part

\* C17: Gap Summarizer prompt keeps rationales intact.  The user prompt that
\* summarize_gaps builds contains each rationale of its input as one
\* contiguous text, with no separator inside a rationale, and run_workflow
\* passes it the explanation text of the score just computed.
C17_RationalesIntact ==
    /\ (op = "gap_prompt" /\ pc = "returned")
         => \A r \in Rationales(args.explanation) : Contains(result, r)
    /\ (op = "run_workflow" /\ summarize_arg # None) => summarize_arg.type = "str"

\* C18: Batch scoring attributes results per record.  score_job_posts returns
\* the records it was given, as many and in the same order, with description
\* and resume unchanged; the i-th scoring call is made with the resume and the
\* i-th record's description, and the i-th record carries that call's score
\* and explanation, or -1 and "Comparison failed" when that call failed,
\* whatever happened to the other calls.
C18_BatchAttribution ==
    /\ op = "score_job_posts" => exc.type # "BackendError"
    /\ (op = "score_job_posts" /\ pc = "returned")
         => /\ Len(result) = Len(args.job_postings)
            /\ Len(score_args) = Len(args.job_postings)
            /\ result = job_postings
            /\ \A i \in 1 .. Len(result) :
                 /\ result[i].description = args.job_postings[i].description
                 /\ result[i].resume = args.job_postings[i].resume
                 /\ score_args[i].resume = args.resume
                 /\ score_args[i].job_description = args.job_postings[i].description
                 /\ IF score_args[i].completion.ok
                    THEN /\ result[i].score = score_args[i].completion.parsed.score
                         /\ result[i].explanation = score_args[i].completion.parsed.explanation
                    ELSE /\ result[i].score = FailedScore
                         /\ result[i].explanation = "Comparison failed"

\* C18 witness: two records, the first call failed and the second scored 8.
C18_Witness ==
    /\ op = "score_job_posts"
    /\ pc = "returned"
    /\ Len(result) = 2
    /\ result[1].description # result[2].description
    /\ ~score_args[1].completion.ok
    /\ score_args[2].completion.ok
    /\ result[1].score = FailedScore
    /\ result[2].score = 8
    /\ result[2].explanation = "strong python"

Passing == {i \in 1 .. Len(scores) : scores[i].score > score_threshold}

\* The k-th member of Passing in list order.
NthPassing(k) == CHOOSE i \in Passing : Cardinality({j \in Passing : j <= i}) = k

\* C19: Gap-analysis filter excludes failed and low scores.  The rationales
\* identify_resume_gaps passes to summarize_gaps are the explanations of the
\* records scoring strictly above the threshold, one each and in list order; a
\* record with the sentinel score -1 or with the threshold itself is not among
\* those counted, and summarize_gaps is called exactly when some record passes.
C19_GapFilter ==
    (op = "identify_resume_gaps" /\ pc = "returned")
        => /\ \A i \in 1 .. Len(scores) :
                scores[i].score \in {FailedScore, score_threshold} => i \notin Passing
           /\ Called("summarize_gaps") <=> Passing # {}
           /\ Called("summarize_gaps")
                => /\ summarize_arg.type = "list"
                   /\ Len(summarize_arg.arg) = Cardinality(Passing)
                   /\ \A k \in 1 .. Len(summarize_arg.arg) :
                        summarize_arg.arg[k] = scores[NthPassing(k)].explanation

\* C19 witness: of a failed record, and of two records at and above the default
\* threshold, only the explanation of the one above it was passed on.
C19_Witness ==
    /\ op = "identify_resume_gaps"
    /\ pc = "returned"
    /\ score_threshold = DefaultThreshold
    /\ scores = <<JobInfo(DefaultThreshold, "Comparison failed"), JobInfo(8, "strong python")>>
    /\ summarize_arg.arg = <<"strong python">>

C21_OllamaGateNeverRejects ==
    (backend = "ollama" /\ op = "check_and_extract")
        => /\ pc # "rejected"
           /\ "check_request" \notin failed
           /\ ~(pc = "raised" /\ exc.at = "check_request")
           /\ is_comparison_request # None
                => /\ is_comparison_request.is_valid
                   /\ is_comparison_request.confidence = 90
                   /\ is_comparison_request.confidence >= MinConfidence
           /\ pc \in {"returned", "raised"} => callLog = <<"check_request", "extract_reqs">>

\* C21 witness: under ollama the gate has let the request through to extract_reqs.
C21_Witness ==
    /\ backend = "ollama"
    /\ op = "check_and_extract"
    /\ pc = "extract_reqs"
    /\ callLog = <<"check_request">>
    /\ is_comparison_request.rationale = "PassThrough Value"

====
